---- MODULE Spec2Model ----
(***************************************************************************)
(* Model of the LLDP decoder of layers/lldp.go: decodeLinkLayerDiscovery   *)
(* (the TLV walker, the mandatory-field extraction, the optional-TLV pass) *)
(* and the extension decoders Decode8021, Decode8023 and Decode8021Qbg.    *)
(*                                                                         *)
(* A Go slice is modelled as a view [at, len, cap] into the backing array  *)
(* mem of the input buffer: indexing is checked against len, slicing       *)
(* against cap, and a failed check is a run-time panic.  Arithmetic on     *)
(* byte-typed operands is taken modulo 256 as in Go.                        *)
(***************************************************************************)
EXTENDS Integers, Sequences, FiniteSets, TLC

VARIABLES mem, dlen, pc, off, vals, c, vi, info, errors, layers, ret, overread, ext

vars == <<mem, dlen, pc, off, vals, c, vi, info, errors, layers, ret, overread, ext>>

----------------------------------------------------------------------------
(* Bounds of the explored inputs *)

MaxRecs == 4
MaxTrunc == 1
MaxSpare == 1
MaxOpt == 2
MaxOrg == 2

----------------------------------------------------------------------------
(* TLV types, lldp.go:18-29 *)

LLDPTLVEnd == 0
LLDPTLVChassisID == 1
LLDPTLVPortID == 2
LLDPTLVTTL == 3
LLDPTLVPortDescription == 4
LLDPTLVSysName == 5
LLDPTLVSysDescription == 6
LLDPTLVSysCapabilities == 7
LLDPTLVMgmtAddress == 8
LLDPTLVOrgSpecific == 127

(* Go integer helpers *)

Add8(a, b) == (a + b) % 256
Shl8(a, n) == (a * (2 ^ n)) % 256
BitSet(x, k) == ((x \div (2 ^ k)) % 2) = 1
Uint16(b) == b[1] * 256 + b[2]
Uint32(b) == ((b[1] * 256 + b[2]) * 256 + b[3]) * 256 + b[4]

(* Go slices over the backing array *)

NilSlice == [at |-> 0, len |-> 0, cap |-> 0]
CanSlice(s, lo, hi) == lo <= hi /\ hi <= s.cap
Slice(s, lo, hi) == [at |-> s.at + lo, len |-> hi - lo, cap |-> s.cap - lo]
Bytes(s) == [i \in 1..s.len |-> mem[s.at + i]]
At(s, i) == mem[s.at + i + 1]

(* Errors: a message and its formatted arguments *)

NoErr == [msg |-> "", args |-> <<>>]
ErrHeader == [msg |-> "Malformed LinkLayerDiscovery Header", args |-> <<>>]
ErrMissing == [msg |-> "Missing mandatory LinkLayerDiscovery TLV", args |-> <<>>]
ErrChassisID == [msg |-> "Malformed LinkLayerDiscovery ChassisID TLV", args |-> <<>>]
ErrPortID == [msg |-> "Malformed LinkLayerDiscovery PortID TLV", args |-> <<>>]
ErrTTL == [msg |-> "Malformed LinkLayerDiscovery TTL TLV", args |-> <<>>]

Running == [status |-> "running", err |-> NoErr]
Panic == [status |-> "panic", err |-> NoErr]
ReturnNil == [status |-> "nil", err |-> NoErr]
ReturnErr(e) == [status |-> "error", err |-> e]

(* Zero values of the decoded structures *)

ZeroFrame ==
  [ChassisID |-> [Subtype |-> 0, ID |-> <<>>],
   PortID |-> [Subtype |-> 0, ID |-> <<>>],
   TTL |-> 0,
   Values |-> <<>>,
   contents |-> <<>>]

NoExt == [call |-> "none", info |-> <<>>, errors |-> <<>>, ret |-> Running]

----------------------------------------------------------------------------
(* The TLV walker, one iteration of the loop of lldp.go:457-472.  Each     *)
(* scanned record also notes hdr, the offset of its header in the buffer,  *)
(* which the Go struct does not hold.                                      *)

vDataLen == dlen - off
vData == [at |-> off, len |-> dlen - off, cap |-> Len(mem) - off]

(* lldp.go:458-460: nbit is a byte, so nbit<<8 is computed in 8 bits *)
HeaderLength(b0, b1) == Add8(Shl8(b0 % 2, 8), b1)

(* lldp.go:465-467: the scan breaks at an End record *)
StopsScanNever(t) == FALSE
StopsScan(t) == t = LLDPTLVEnd

Finish(r) ==
  /\ pc' = "done"
  /\ ret' = r

Scan ==
  /\ pc = "scan"
  /\ IF vDataLen = 0
     THEN /\ pc' = "mandatory"
          /\ UNCHANGED <<off, vals, ret, overread>>
     ELSE IF vDataLen < 2
     THEN /\ Finish(Panic)
          /\ UNCHANGED <<off, vals, overread>>
     ELSE LET b0 == At(vData, 0)
              b1 == At(vData, 1)
              t == b0 \div 2
              length == HeaderLength(b0, b1)
              val == [Type |-> t, Length |-> length, hdr |-> off,
                      Value |-> IF length > 0 THEN Slice(vData, 2, length + 2)
                                ELSE NilSlice]
          IN IF length > 0 /\ ~CanSlice(vData, 2, length + 2)
             THEN /\ Finish(Panic)
                  /\ UNCHANGED <<off, vals, overread>>
             ELSE /\ overread' = (overread \/ (length > 0 /\ length + 2 > vDataLen))
                  /\ vals' = Append(vals, val)
                  /\ IF StopsScan(t)
                     THEN pc' = "mandatory" /\ UNCHANGED <<off, ret>>
                     ELSE IF vDataLen < 2 + length
                     THEN Finish(ReturnErr(ErrHeader)) /\ UNCHANGED off
                     ELSE /\ off' = off + 2 + length
                          /\ UNCHANGED <<pc, ret>>
  /\ UNCHANGED <<mem, dlen, c, vi, info, errors, layers, ext>>

----------------------------------------------------------------------------
(* Mandatory-field extraction and frame validation, lldp.go:473-507 *)

ExtractOne(st, v) ==
  IF v.Type = LLDPTLVEnd
  THEN [st EXCEPT !.gotEnd = TRUE]
  ELSE IF v.Type = LLDPTLVChassisID
  THEN IF v.Value.len < 2
       THEN [st EXCEPT !.err = ErrChassisID]
       ELSE [st EXCEPT !.c.ChassisID =
               [Subtype |-> At(v.Value, 0),
                ID |-> Bytes(Slice(v.Value, 1, v.Value.len))]]
  ELSE IF v.Type = LLDPTLVPortID
  THEN IF v.Value.len < 2
       THEN [st EXCEPT !.err = ErrPortID]
       ELSE [st EXCEPT !.c.PortID =
               [Subtype |-> At(v.Value, 0),
                ID |-> Bytes(Slice(v.Value, 1, v.Value.len))]]
  ELSE IF v.Type = LLDPTLVTTL
  THEN IF v.Value.len < 2
       THEN [st EXCEPT !.err = ErrTTL]
       ELSE [st EXCEPT !.c.TTL = Uint16(Bytes(Slice(v.Value, 0, 2)))]
  ELSE [st EXCEPT !.c.Values = Append(@, v)]

RECURSIVE ExtractFrom(_, _)
ExtractFrom(i, st) ==
  IF i > Len(vals) \/ st.err # NoErr
  THEN st
  ELSE ExtractFrom(i + 1, ExtractOne(st, vals[i]))

Extracted == ExtractFrom(1, [c |-> ZeroFrame, gotEnd |-> FALSE, err |-> NoErr])

FrameInvalidNoEndCheck(st) ==
  st.c.ChassisID.Subtype = 0 \/ st.c.PortID.Subtype = 0
FrameInvalid(st) ==
  st.c.ChassisID.Subtype = 0 \/ st.c.PortID.Subtype = 0 \/ ~st.gotEnd

Mandatory ==
  /\ pc = "mandatory"
  /\ IF Len(vals) < 4
     THEN Finish(ReturnErr(ErrMissing)) /\ UNCHANGED <<c, layers>>
     ELSE LET st == Extracted
          IN IF st.err # NoErr
             THEN Finish(ReturnErr(st.err)) /\ UNCHANGED <<c, layers>>
             ELSE IF FrameInvalid(st)
             THEN Finish(ReturnErr(ErrMissing)) /\ UNCHANGED <<c, layers>>
             ELSE /\ c' = [st.c EXCEPT !.contents = SubSeq(mem, 1, dlen)]
                  /\ layers' = Append(layers, "LinkLayerDiscovery")
                  /\ pc' = "info"
                  /\ UNCHANGED ret
  /\ UNCHANGED <<mem, dlen, off, vals, vi, info, errors, overread, ext>>

----------------------------------------------------------------------------
(* Bitfield translator, lldp.go:688-701 *)

getCapabilities(v) ==
  [Other |-> BitSet(v, 0), Repeater |-> BitSet(v, 1), Bridge |-> BitSet(v, 2),
   WLANAP |-> BitSet(v, 3), Router |-> BitSet(v, 4), Phone |-> BitSet(v, 5),
   DocSis |-> BitSet(v, 6), StationOnly |-> BitSet(v, 7), CVLAN |-> BitSet(v, 8),
   SVLAN |-> BitSet(v, 9), TMPR |-> BitSet(v, 10)]

ZeroMgmtAddress ==
  [Subtype |-> 0, Address |-> <<>>, InterfaceSubtype |-> 0,
   InterfaceNumber |-> 0, OID |-> <<>>]

ZeroInfo ==
  [PortDescription |-> <<>>,
   SysName |-> <<>>,
   SysDescription |-> <<>>,
   SysCapabilities |-> [SystemCap |-> getCapabilities(0),
                        EnabledCap |-> getCapabilities(0)],
   MgmtAddress |-> ZeroMgmtAddress,
   OrgTLVs |-> <<>>,
   Unknown |-> <<>>]

(* Length checks, lldp.go:871-885 *)

TLVLenError(v, l) ==
  [msg |-> "Invalid TLV length", args |-> <<v.Type, v.Value.len, l>>]

checkLLDPTLVLen(v, l, e) ==
  IF v.Value.len >= l
  THEN [ok |-> TRUE, errors |-> e]
  ELSE [ok |-> FALSE, errors |-> Append(e, TLVLenError(v, l))]

OrgLenError(o, l) ==
  [msg |-> "Invalid Org Specific TLV length", args |-> <<o.SubType, o.Info.len, l>>]

checkLLDPOrgSpecificLen(o, l, e) ==
  IF o.Info.len >= l
  THEN [ok |-> TRUE, errors |-> e]
  ELSE [ok |-> FALSE, errors |-> Append(e, OrgLenError(o, l))]

----------------------------------------------------------------------------
(* lldp.go:548-551 (and 601-603, 652-654, 676-678): the first collected  *)
(* error is the one returned                                              *)
ReturnLast(errs) ==
  IF Len(errs) > 0 THEN ReturnErr(errs[Len(errs)]) ELSE ReturnNil
ReturnOf(errs) ==
  IF Len(errs) > 0 THEN ReturnErr(errs[1]) ELSE ReturnNil

(* The optional-TLV pass, one iteration of the loop of lldp.go:512-546.   *)
(* st carries info, errors and whether the iteration panicked.  A panic   *)
(* leaves info undelivered, so the fields assigned before it are not kept. *)

CanIndex(s, i) == i < s.len
Panicked(st) == [st EXCEPT !.panic = TRUE]

DecodeSysCapabilities(v, st) ==
  LET chk == checkLLDPTLVLen(v, 4, st.errors)
  IN IF chk.ok
     THEN [st EXCEPT !.info.SysCapabilities =
             [SystemCap |-> getCapabilities(Uint16(Bytes(Slice(v.Value, 0, 2)))),
              EnabledCap |-> getCapabilities(Uint16(Bytes(Slice(v.Value, 2, 4))))]]
     ELSE [st EXCEPT !.errors = chk.errors]

DecodeMgmtAddress(v, st) ==
  LET V == v.Value
      chk9 == checkLLDPTLVLen(v, 9, st.errors)
  IN IF ~chk9.ok
     THEN [st EXCEPT !.errors = chk9.errors]
     ELSE
     LET mlen == At(V, 0)
         chk1 == checkLLDPTLVLen(v, Add8(mlen, 7), st.errors)
     IN IF ~chk1.ok
        THEN [st EXCEPT !.errors = chk1.errors]
        ELSE IF ~CanSlice(V, 2, Add8(mlen, 1))
        THEN Panicked(st)
        ELSE IF ~CanIndex(V, Add8(mlen, 1))
        THEN Panicked(st)
        ELSE IF ~CanSlice(V, Add8(mlen, 2), Add8(mlen, 6))
        THEN Panicked(st)
        ELSE IF Add8(mlen, 6) - Add8(mlen, 2) < 4
        THEN Panicked(st)
        ELSE IF ~CanIndex(V, Add8(mlen, 6))
        THEN Panicked(st)
        ELSE
        LET olen == At(V, Add8(mlen, 6))
            chk2 == checkLLDPTLVLen(v, Add8(Add8(mlen, 6), olen), st.errors)
            lo == Add8(mlen, 9)
            hi == Add8(Add8(mlen, 9), olen)
            prefix == [st.info.MgmtAddress EXCEPT
                         !.Subtype = At(V, 1),
                         !.Address = Bytes(Slice(V, 2, Add8(mlen, 1))),
                         !.InterfaceSubtype = At(V, Add8(mlen, 1)),
                         !.InterfaceNumber =
                            Uint32(Bytes(Slice(V, Add8(mlen, 2), Add8(mlen, 6))))]
        IN IF ~chk2.ok
           THEN [st EXCEPT !.info.MgmtAddress = prefix, !.errors = chk2.errors]
           ELSE IF ~CanSlice(V, lo, hi)
           THEN Panicked(st)
           ELSE [st EXCEPT !.info.MgmtAddress =
                   [prefix EXCEPT !.OID = Bytes(Slice(V, lo, hi))]]

DecodeOrgSpecific(v, st) ==
  LET chk == checkLLDPTLVLen(v, 4, st.errors)
  IN IF ~chk.ok
     THEN [st EXCEPT !.errors = chk.errors]
     ELSE [st EXCEPT !.info.OrgTLVs = Append(@,
             [OUI |-> Uint32(<<0>> \o Bytes(Slice(v.Value, 0, 3))),
              SubType |-> At(v.Value, 3),
              Info |-> Slice(v.Value, 4, v.Value.len)])]

DecodeOptional(v, st) ==
  IF v.Type = LLDPTLVPortDescription
  THEN [st EXCEPT !.info.PortDescription = Bytes(v.Value)]
  ELSE IF v.Type = LLDPTLVSysName
  THEN [st EXCEPT !.info.SysName = Bytes(v.Value)]
  ELSE IF v.Type = LLDPTLVSysDescription
  THEN [st EXCEPT !.info.SysDescription = Bytes(v.Value)]
  ELSE IF v.Type = LLDPTLVSysCapabilities
  THEN DecodeSysCapabilities(v, st)
  ELSE IF v.Type = LLDPTLVMgmtAddress
  THEN DecodeMgmtAddress(v, st)
  ELSE IF v.Type = LLDPTLVOrgSpecific
  THEN DecodeOrgSpecific(v, st)
  ELSE st

(* lldp.go:509-552: the loop over c.Values, then AddLayer(info) and the   *)
(* return of the first collected error                                    *)
Info ==
  /\ pc = "info"
  /\ IF vi > Len(c.Values)
     THEN /\ layers' = Append(layers, "LinkLayerDiscoveryInfo")
          /\ Finish(ReturnOf(errors))
          /\ UNCHANGED <<vi, info, errors>>
     ELSE LET st == DecodeOptional(c.Values[vi],
                       [info |-> info, errors |-> errors, panic |-> FALSE])
          IN IF st.panic
             THEN Finish(Panic) /\ UNCHANGED <<vi, info, errors, layers>>
             ELSE /\ info' = st.info
                  /\ errors' = st.errors
                  /\ vi' = vi + 1
                  /\ UNCHANGED <<pc, ret, layers>>
  /\ UNCHANGED <<mem, dlen, off, vals, c, overread, ext>>

----------------------------------------------------------------------------
(* Organization identifiers and subtypes, lldp.go:170-188, 233-238, 411-415 *)

IEEEOUI8021 == 194 + 256 * 128
IEEEOUI8023 == 15 + 256 * 18
IEEEOUI8021Qbg == 191 + 256 * 19

LLDP8021SubtypePortVLANID == 1
LLDP8021SubtypeProtocolVLANID == 2
LLDP8021SubtypeVLANName == 3
LLDP8021SubtypeProtocolIdentity == 4
LLDP8021SubtypeVDIUsageDigest == 5
LLDP8021SubtypeManagementVID == 6
LLDP8021SubtypeLinkAggregation == 7

LLDP8023SubtypeMACPHY == 1
LLDP8023SubtypeMDIPower == 2
LLDP8023SubtypeLinkAggregation == 3
LLDP8023SubtypeMTU == 4

LLDP8021QbgEVB == 0

ZeroInfo8021 ==
  [PVID |-> 0, PPVIDs |-> <<>>, VLANNames |-> <<>>, ProtocolIdentities |-> <<>>,
   VIDUsageDigest |-> 0, ManagementVID |-> 0,
   LinkAggregation |-> [Supported |-> FALSE, Enabled |-> FALSE, PortID |-> 0]]

ZeroPowerViaMDI ==
  [PortClassPSE |-> FALSE, PSESupported |-> FALSE, PSEEnabled |-> FALSE,
   PSEPairsAbility |-> FALSE, PSEPowerPair |-> 0, PSEClass |-> 0,
   PowerType |-> 0, PowerSource |-> 0, PowerPriority |-> 0,
   RequestedPower |-> 0, AllocatedPower |-> 0]

ZeroInfo8023 ==
  [MACPHYConfigStatus |-> [AutoNegSupported |-> FALSE, AutoNegEnabled |-> FALSE,
                           AutoNegCapability |-> 0, MAUType |-> 0],
   PowerViaMDI |-> ZeroPowerViaMDI,
   LinkAggregation |-> [Status |-> 0, PortID |-> 0],
   MTU |-> 0]

getEVBCapabilities(v) ==
  [StandardBridging |-> BitSet(v, 0), ReflectiveRelay |-> BitSet(v, 1),
   RetransmissionTimerExponent |-> BitSet(v, 2),
   EdgeControlProtocol |-> BitSet(v, 3), VSIDiscoveryProtocol |-> BitSet(v, 4)]

ZeroInfo8021Qbg ==
  [EVBSettings |-> [Supported |-> getEVBCapabilities(0),
                    Enabled |-> getEVBCapabilities(0),
                    SupportedVSIs |-> 0, ConfiguredVSIs |-> 0, RTEExponent |-> 0]]

U16At(s, lo) == Uint16(Bytes(Slice(s, lo, lo + 2)))
U32At(s, lo) == Uint32(Bytes(Slice(s, lo, lo + 4)))

(* One entry of l.OrgTLVs in Decode8021, lldp.go:557-600 *)
Step8021(o, st) ==
  IF o.OUI # IEEEOUI8021 THEN st
  ELSE IF o.SubType = LLDP8021SubtypePortVLANID
  THEN LET chk == checkLLDPOrgSpecificLen(o, 2, st.errors)
       IN IF chk.ok THEN [st EXCEPT !.info.PVID = U16At(o.Info, 0)]
          ELSE [st EXCEPT !.errors = chk.errors]
  ELSE IF o.SubType = LLDP8021SubtypeProtocolVLANID
  THEN LET chk == checkLLDPOrgSpecificLen(o, 3, st.errors)
       IN IF chk.ok
          THEN [st EXCEPT !.info.PPVIDs = Append(@,
                  [Supported |-> BitSet(At(o.Info, 0), 0),
                   Enabled |-> BitSet(At(o.Info, 0), 1),
                   ID |-> U16At(o.Info, 1)])]
          ELSE [st EXCEPT !.errors = chk.errors]
  ELSE IF o.SubType = LLDP8021SubtypeVLANName
  THEN LET chk == checkLLDPOrgSpecificLen(o, 2, st.errors)
       IN IF chk.ok
          THEN IF ~(3 <= o.Info.len)
               THEN Panicked(st)
               ELSE [st EXCEPT !.info.VLANNames = Append(@,
                       [ID |-> U16At(o.Info, 0),
                        Name |-> Bytes(Slice(o.Info, 3, o.Info.len))])]
          ELSE [st EXCEPT !.errors = chk.errors]
  ELSE IF o.SubType = LLDP8021SubtypeProtocolIdentity
  THEN LET chk == checkLLDPOrgSpecificLen(o, 1, st.errors)
       IN IF chk.ok
          THEN LET l == At(o.Info, 0)
               IN IF l > 0
                  THEN IF ~CanSlice(o.Info, 1, 1 + l)
                       THEN Panicked(st)
                       ELSE [st EXCEPT !.info.ProtocolIdentities =
                               Append(@, Bytes(Slice(o.Info, 1, 1 + l)))]
                  ELSE st
          ELSE [st EXCEPT !.errors = chk.errors]
  ELSE IF o.SubType = LLDP8021SubtypeVDIUsageDigest
  THEN LET chk == checkLLDPOrgSpecificLen(o, 4, st.errors)
       IN IF chk.ok THEN [st EXCEPT !.info.VIDUsageDigest = U32At(o.Info, 0)]
          ELSE [st EXCEPT !.errors = chk.errors]
  ELSE IF o.SubType = LLDP8021SubtypeManagementVID
  THEN LET chk == checkLLDPOrgSpecificLen(o, 2, st.errors)
       IN IF chk.ok THEN [st EXCEPT !.info.ManagementVID = U16At(o.Info, 0)]
          ELSE [st EXCEPT !.errors = chk.errors]
  ELSE IF o.SubType = LLDP8021SubtypeLinkAggregation
  THEN LET chk == checkLLDPOrgSpecificLen(o, 5, st.errors)
       IN IF chk.ok
          THEN [st EXCEPT !.info.LinkAggregation =
                  [Supported |-> BitSet(At(o.Info, 0), 0),
                   Enabled |-> BitSet(At(o.Info, 0), 1),
                   PortID |-> U32At(o.Info, 1)]]
          ELSE [st EXCEPT !.errors = chk.errors]
  ELSE st

(* One entry of l.OrgTLVs in Decode8023, lldp.go:610-651 *)
DecodeMDIPower(o, st) ==
  LET flags == At(o.Info, 0)
      base == [st.info.PowerViaMDI EXCEPT
                 !.PortClassPSE = BitSet(flags, 0),
                 !.PSESupported = BitSet(flags, 1),
                 !.PSEEnabled = BitSet(flags, 2),
                 !.PSEPairsAbility = BitSet(flags, 3),
                 !.PSEPowerPair = At(o.Info, 1),
                 !.PSEClass = At(o.Info, 2)]
  IN IF o.Info.len >= 8
     THEN LET ptype == At(o.Info, 3) \div 64
              psrc == (At(o.Info, 3) \div 16) % 4
              allocated == Slice(o.Info, 7, 8)
          IN IF allocated.len < 2
             THEN Panicked(st)
             ELSE [st EXCEPT !.info.PowerViaMDI =
                     [base EXCEPT
                        !.PowerType = ptype,
                        !.PowerSource = IF ptype = 1 \/ ptype = 3
                                        THEN Add8(psrc, 128) ELSE psrc,
                        !.PowerPriority = At(o.Info, 4) % 16,
                        !.RequestedPower = U16At(o.Info, 5),
                        !.AllocatedPower = Uint16(Bytes(allocated))]]
     ELSE [st EXCEPT !.info.PowerViaMDI = base]

Step8023(o, st) ==
  IF o.OUI # IEEEOUI8023 THEN st
  ELSE IF o.SubType = LLDP8023SubtypeMACPHY
  THEN LET chk == checkLLDPOrgSpecificLen(o, 5, st.errors)
       IN IF chk.ok
          THEN [st EXCEPT !.info.MACPHYConfigStatus =
                  [AutoNegSupported |-> BitSet(At(o.Info, 0), 0),
                   AutoNegEnabled |-> BitSet(At(o.Info, 0), 1),
                   AutoNegCapability |-> U16At(o.Info, 1),
                   MAUType |-> U16At(o.Info, 3)]]
          ELSE [st EXCEPT !.errors = chk.errors]
  ELSE IF o.SubType = LLDP8023SubtypeMDIPower
  THEN LET chk == checkLLDPOrgSpecificLen(o, 3, st.errors)
       IN IF chk.ok THEN DecodeMDIPower(o, st)
          ELSE [st EXCEPT !.errors = chk.errors]
  ELSE IF o.SubType = LLDP8023SubtypeLinkAggregation
  THEN LET chk == checkLLDPOrgSpecificLen(o, 5, st.errors)
       IN IF chk.ok
          THEN [st EXCEPT !.info.LinkAggregation =
                  [Status |-> At(o.Info, 0), PortID |-> U32At(o.Info, 1)]]
          ELSE [st EXCEPT !.errors = chk.errors]
  ELSE IF o.SubType = LLDP8023SubtypeMTU
  THEN LET chk == checkLLDPOrgSpecificLen(o, 2, st.errors)
       IN IF chk.ok THEN [st EXCEPT !.info.MTU = U16At(o.Info, 0)]
          ELSE [st EXCEPT !.errors = chk.errors]
  ELSE st

(* One entry of l.OrgTLVs in Decode8021Qbg, lldp.go:661-675 *)
Step8021Qbg(o, st) ==
  IF o.OUI # IEEEOUI8021Qbg THEN st
  ELSE IF o.SubType = LLDP8021QbgEVB
  THEN LET chk == checkLLDPOrgSpecificLen(o, 9, st.errors)
       IN IF chk.ok
          THEN [st EXCEPT !.info.EVBSettings =
                  [Supported |-> getEVBCapabilities(U16At(o.Info, 0)),
                   Enabled |-> getEVBCapabilities(U16At(o.Info, 2)),
                   SupportedVSIs |-> U16At(o.Info, 4),
                   ConfiguredVSIs |-> U16At(o.Info, 6),
                   RTEExponent |-> At(o.Info, 8)]]
          ELSE [st EXCEPT !.errors = chk.errors]
  ELSE st

(* The loop over l.OrgTLVs; a panic ends it *)
StepOrg(which, o, st) ==
  IF which = "Decode8021" THEN Step8021(o, st)
  ELSE IF which = "Decode8023" THEN Step8023(o, st)
  ELSE Step8021Qbg(o, st)

RECURSIVE RangeOrgTLVs(_, _, _, _)
RangeOrgTLVs(which, tlvs, i, st) ==
  IF i > Len(tlvs) \/ st.panic
  THEN st
  ELSE RangeOrgTLVs(which, tlvs, i + 1, StepOrg(which, tlvs[i], st))

(* The value a call returns: (info, err) with err the first error, or a panic *)
ExtResult(which, zero, tlvs) ==
  LET st == RangeOrgTLVs(which, tlvs, 1,
                         [info |-> zero, errors |-> <<>>, panic |-> FALSE])
  IN IF st.panic
     THEN [call |-> which, info |-> <<>>, errors |-> st.errors, ret |-> Panic]
     ELSE [call |-> which, info |-> st.info, errors |-> st.errors,
           ret |-> ReturnOf(st.errors)]

(* The caller holds the delivered info layer and invokes a decoder on it *)
InfoDelivered == pc = "done" /\ Len(layers) = 2

Decode8021 ==
  /\ InfoDelivered
  /\ ext' = ExtResult("Decode8021", ZeroInfo8021, info.OrgTLVs)
  /\ UNCHANGED <<mem, dlen, pc, off, vals, c, vi, info, errors, layers, ret, overread>>

Decode8023 ==
  /\ InfoDelivered
  /\ ext' = ExtResult("Decode8023", ZeroInfo8023, info.OrgTLVs)
  /\ UNCHANGED <<mem, dlen, pc, off, vals, c, vi, info, errors, layers, ret, overread>>

Decode8021Qbg ==
  /\ InfoDelivered
  /\ ext' = ExtResult("Decode8021Qbg", ZeroInfo8021Qbg, info.OrgTLVs)
  /\ UNCHANGED <<mem, dlen, pc, off, vals, c, vi, info, errors, layers, ret, overread>>

Next == Scan \/ Mandatory \/ Info \/ Decode8021 \/ Decode8023 \/ Decode8021Qbg

----------------------------------------------------------------------------
(* Input buffers.  A record is encoded as on the wire: 7 bits of kind, 9   *)
(* bits of length, then the value.                                         *)

Rec(kind, value) ==
  <<kind * 2 + (Len(value) \div 256), Len(value) % 256>> \o value

RecEnd == Rec(LLDPTLVEnd, <<>>)
RecEndValue == Rec(LLDPTLVEnd, <<9>>)
RecChassis == Rec(LLDPTLVChassisID, <<4, 170>>)
RecChassisReserved == Rec(LLDPTLVChassisID, <<0, 170>>)
RecChassisShort == Rec(LLDPTLVChassisID, <<4>>)
RecPort == Rec(LLDPTLVPortID, <<3, 187>>)
RecTTL == Rec(LLDPTLVTTL, <<0, 120>>)
RecSysName == Rec(LLDPTLVSysName, <<65>>)
RecHighBit == <<LLDPTLVSysName * 2 + 1, 0>>

FrameRecs ==
  {RecEnd, RecEndValue, RecChassis, RecChassisReserved, RecChassisShort, RecPort, RecTTL,
   RecSysName, RecHighBit}

RECURSIVE Concat(_)
Concat(ss) == IF ss = <<>> THEN <<>> ELSE Head(ss) \o Concat(Tail(ss))

SeqsUpTo(S, n) == UNION {[1..k -> S] : k \in 0..n}

Spare(s) == [i \in 1..s |-> 238]

InitDecoder(buf, spare) ==
  /\ mem = buf \o Spare(spare)
  /\ dlen = Len(buf)
  /\ pc = "scan"
  /\ off = 0
  /\ vals = <<>>
  /\ c = ZeroFrame
  /\ vi = 1
  /\ info = ZeroInfo
  /\ errors = <<>>
  /\ layers = <<>>
  /\ ret = Running
  /\ overread = FALSE
  /\ ext = NoExt

(* Optional records that follow the mandatory ones of an accepted frame *)

RecTTL2 == Rec(LLDPTLVTTL, <<0, 60>>)
RecPortDescription == Rec(LLDPTLVPortDescription, <<80>>)
RecSysCap == Rec(LLDPTLVSysCapabilities, <<0, 4, 0, 4>>)
RecSysCapShort == Rec(LLDPTLVSysCapabilities, <<0, 4, 0>>)
RecMgmt == Rec(LLDPTLVMgmtAddress, <<5, 1, 10, 0, 0, 1, 2, 0, 0, 0, 7, 0>>)
RecMgmtShort == Rec(LLDPTLVMgmtAddress, <<5, 1, 10, 0, 0, 1, 2, 0>>)
RecMgmtLongAddr == Rec(LLDPTLVMgmtAddress, <<9, 1, 10, 0, 0, 1, 2, 0, 0>>)
RecMgmtWrapAddr == Rec(LLDPTLVMgmtAddress, <<250, 1, 10, 0, 0, 1, 2, 0, 0>>)
RecMgmtZeroAddr == Rec(LLDPTLVMgmtAddress, <<0, 1, 2, 0, 0, 0, 7, 0, 0>>)
RecMgmtOID == Rec(LLDPTLVMgmtAddress, <<2, 1, 10, 2, 0, 0, 0, 7, 2, 43, 6>>)
RecMgmtLongOID == Rec(LLDPTLVMgmtAddress, <<2, 1, 10, 2, 0, 0, 0, 7, 5>>)
RecMgmtEdgeOID == Rec(LLDPTLVMgmtAddress, <<1, 1, 2, 0, 0, 0, 7, 2, 99>>)
RecMgmtWrapOID == Rec(LLDPTLVMgmtAddress, <<2, 1, 10, 2, 0, 0, 0, 7, 250>>)
RecMgmtFullOID == Rec(LLDPTLVMgmtAddress, <<2, 1, 10, 2, 0, 0, 0, 7, 1, 0, 0, 43>>)
RecOrgShort == Rec(LLDPTLVOrgSpecific, <<0, 128, 194>>)
RecUnknown == Rec(9, <<5>>)

Org(oui, subtype, payload) == Rec(LLDPTLVOrgSpecific, oui \o <<subtype>> \o payload)

OUI8021 == <<0, 128, 194>>
OUI8023 == <<0, 18, 15>>
OUI8021Qbg == <<0, 19, 191>>
OUICisco2 == <<0, 1, 66>>

RecPVID == Org(OUI8021, LLDP8021SubtypePortVLANID, <<0, 7>>)
RecPVIDShort == Org(OUI8021, LLDP8021SubtypePortVLANID, <<9>>)
RecPPVID == Org(OUI8021, LLDP8021SubtypeProtocolVLANID, <<3, 0, 8>>)
RecVLANName2 == Org(OUI8021, LLDP8021SubtypeVLANName, <<0, 9>>)
RecVLANName3 == Org(OUI8021, LLDP8021SubtypeVLANName, <<0, 9, 1>>)
RecVLANName4 == Org(OUI8021, LLDP8021SubtypeVLANName, <<0, 9, 1, 86>>)
RecProtoID == Org(OUI8021, LLDP8021SubtypeProtocolIdentity, <<2, 136, 142>>)
RecProtoIDLong == Org(OUI8021, LLDP8021SubtypeProtocolIdentity, <<5, 136>>)
RecLinkAgg == Org(OUI8021, LLDP8021SubtypeLinkAggregation, <<3, 0, 0, 0, 5>>)
RecMACPHY == Org(OUI8023, LLDP8023SubtypeMACPHY, <<3, 108, 0, 0, 30>>)
RecMDIPower3 == Org(OUI8023, LLDP8023SubtypeMDIPower, <<15, 1, 2>>)
RecMDIPower7 == Org(OUI8023, LLDP8023SubtypeMDIPower, <<9, 2, 3, 80, 2, 0, 30>>)
RecMDIPower8 == Org(OUI8023, LLDP8023SubtypeMDIPower, <<15, 1, 2, 80, 2, 0, 30, 25>>)
RecMTU == Org(OUI8023, LLDP8023SubtypeMTU, <<5, 220>>)
RecMTUShort == Org(OUI8023, LLDP8023SubtypeMTU, <<5>>)
RecEVB == Org(OUI8021Qbg, LLDP8021QbgEVB, <<0, 1, 0, 1, 0, 5, 0, 3, 8>>)
RecEVBShort == Org(OUI8021Qbg, LLDP8021QbgEVB, <<0, 1>>)
RecCisco == Org(OUICisco2, 1, <<9>>)

OptRecs ==
  {RecSysName, RecPortDescription, RecSysCap, RecSysCapShort, RecMgmt,
   RecMgmtShort, RecMgmtLongAddr, RecMgmtWrapAddr, RecMgmtZeroAddr, RecMgmtOID,
   RecMgmtLongOID, RecMgmtEdgeOID, RecMgmtWrapOID, RecMgmtFullOID, RecOrgShort,
   RecPVID, RecUnknown, RecTTL2}

OrgRecs ==
  {RecPVID, RecPVIDShort, RecPPVID, RecVLANName2, RecVLANName3, RecVLANName4,
   RecProtoID,
   RecProtoIDLong, RecLinkAgg, RecMACPHY, RecMDIPower3, RecMDIPower7,
   RecMDIPower8, RecMTU,
   RecMTUShort, RecEVB, RecEVBShort, RecCisco}

Trailers == {<<>>, <<7>>, RecSysName}

Mandatories == RecChassis \o RecPort \o RecTTL

(* Any sequence of up to MaxRecs records, possibly cut short, in a buffer  *)
(* with or without spare capacity                                          *)
InitFrames ==
  \E rs \in SeqsUpTo(FrameRecs, MaxRecs), cut \in 0..MaxTrunc, spare \in 0..MaxSpare :
    LET whole == Concat(rs)
    IN /\ cut <= Len(whole)
       /\ InitDecoder(SubSeq(whole, 1, Len(whole) - cut), spare)

(* The mandatory records, up to MaxOpt optional ones, End and a trailer *)
InitOptionals ==
  \E rs \in SeqsUpTo(OptRecs, MaxOpt), tr \in Trailers, spare \in 0..MaxSpare :
    InitDecoder(Mandatories \o Concat(rs) \o RecEnd \o tr, spare)

(* The mandatory records, up to MaxOrg organization-specific ones and End *)
InitOrgs ==
  \E rs \in SeqsUpTo(OrgRecs, MaxOrg), spare \in 0..MaxSpare :
    InitDecoder(Mandatories \o Concat(rs) \o RecEnd, spare)

Init == InitFrames \/ InitOptionals \/ InitOrgs

Spec == Init /\ [][Next]_vars

----------------------------------------------------------------------------
(* Properties *)

Done == pc = "done"
FrameDelivered == Len(layers) >= 1 /\ layers[1] = "LinkLayerDiscovery"
HasKind(k) == \E i \in 1..Len(vals) : vals[i].Type = k
NoEndScanned == ~HasKind(LLDPTLVEnd)
WireLength(b0, b1) == (b0 % 2) * 256 + b1

(* The scan stands at a non-End record whose declared length exceeds the   *)
(* bytes that remain after its header                                      *)
TruncatedHere ==
  /\ vDataLen >= 2
  /\ At(vData, 0) \div 2 # LLDPTLVEnd
  /\ HeaderLength(At(vData, 0), At(vData, 1)) > vDataLen - 2

(* C1: a record before any End that declares more bytes than remain makes  *)
(* the decoder return the truncated-record error, deliver no layer, and    *)
(* take no value slice past the end of the buffer.                         *)
C1_TruncatedRecordError ==
  (Done /\ NoEndScanned /\ TruncatedHere) =>
     /\ ret = ReturnErr(ErrHeader)
     /\ layers = <<>>
     /\ ~overread

(* C2 as stated, on the runs that return an error: a buffer whose scanned  *)
(* records contain no End fails with the missing-mandatory error, whatever *)
(* the other records are, and delivers no frame.                           *)
C2_NoEndAlwaysMissing ==
  (Done /\ NoEndScanned /\ ret.status = "error") =>
     (ret = ReturnErr(ErrMissing) /\ layers = <<>>)

ShortMandatory(v) ==
  v.Type \in {LLDPTLVChassisID, LLDPTLVPortID, LLDPTLVTTL} /\ v.Value.len < 2
ScanConsumedAll == off = dlen

(* C2 amended: a buffer whose scanned records contain no End delivers no   *)
(* layer; the outcome is the missing-mandatory error exactly when the scan *)
(* consumed the whole buffer and either fewer than 4 records were read or  *)
(* no ChassisID, PortID or TTL record has a value shorter than 2 bytes;    *)
(* otherwise it is the truncated-record error, one of the malformed        *)
(* ChassisID/PortID/TTL errors, or a run-time panic.                       *)
C2_NoEndNoFrame ==
  (Done /\ NoEndScanned) =>
     /\ layers = <<>>
     /\ (ret = ReturnErr(ErrMissing)) <=>
          (ScanConsumedAll /\
             (Len(vals) < 4 \/ \A i \in 1..Len(vals) : ~ShortMandatory(vals[i])))
     /\ ret \in {ReturnErr(ErrMissing), ReturnErr(ErrHeader), ReturnErr(ErrChassisID),
                 ReturnErr(ErrPortID), ReturnErr(ErrTTL), Panic}
     /\ (ret = ReturnErr(ErrHeader)) => TruncatedHere
     /\ (ret = Panic) => ~ScanConsumedAll

C2_Witness ==
  /\ Done /\ NoEndScanned
  /\ Len(vals) >= 4
  /\ HasKind(LLDPTLVChassisID) /\ HasKind(LLDPTLVPortID) /\ HasKind(LLDPTLVTTL)
  /\ ret = ReturnErr(ErrMissing)

(* C3: a delivered frame means the scanned records contain a ChassisID     *)
(* with subtype # 0, a PortID with subtype # 0, a TTL record and End.      *)
SubtypedRecord(k) ==
  \E i \in 1..Len(vals) :
     vals[i].Type = k /\ vals[i].Value.len >= 1 /\ At(vals[i].Value, 0) # 0

C3_MandatorySetPresent ==
  FrameDelivered =>
     /\ SubtypedRecord(LLDPTLVChassisID)
     /\ SubtypedRecord(LLDPTLVPortID)
     /\ HasKind(LLDPTLVTTL)
     /\ HasKind(LLDPTLVEnd)

(* C4: every scanned record has kind b0 >> 1 and the 9-bit length          *)
(* ((b0 & 1) << 8) | b1, and the next header is read 2 + length further.   *)
C4_NineBitLength ==
  \A i \in 1..Len(vals) :
     LET b0 == mem[vals[i].hdr + 1]
         b1 == mem[vals[i].hdr + 2]
     IN /\ vals[i].Type = b0 \div 2
        /\ vals[i].Length = WireLength(b0, b1)
        /\ i < Len(vals) => vals[i + 1].hdr = vals[i].hdr + 2 + WireLength(b0, b1)

Last(s) == s[Len(s)]
IsMandatoryKind(k) ==
  k \in {LLDPTLVEnd, LLDPTLVChassisID, LLDPTLVPortID, LLDPTLVTTL}
IsLeftover(v) == ~IsMandatoryKind(v.Type)

(* The scanned records lie back to back from offset 0, each with the kind  *)
(* and the value bytes found at its place in the buffer                    *)
InWireOrder ==
  \A i \in 1..Len(vals) :
     /\ vals[i].hdr = (IF i = 1 THEN 0 ELSE vals[i - 1].hdr + 2 + vals[i - 1].Length)
     /\ vals[i].Type = mem[vals[i].hdr + 1] \div 2
     /\ vals[i].Value.len = vals[i].Length
     /\ Bytes(vals[i].Value) = [j \in 1..vals[i].Length |-> mem[vals[i].hdr + 2 + j]]

ValueEnd(v) == v.hdr + 2 + v.Length

----------------------------------------------------------------------------
(* The optional-TLV pass *)

LengthFloor(k) ==
  IF k = LLDPTLVSysCapabilities THEN 4
  ELSE IF k = LLDPTLVMgmtAddress THEN 9
  ELSE IF k = LLDPTLVOrgSpecific THEN 4
  ELSE 0
BelowFloor(v) == v.Value.len < LengthFloor(v.Type)
Indices(seq, P(_)) == {i \in 1..Len(seq) : P(seq[i])}
IsSysName(v) == v.Type = LLDPTLVSysName
IsPortDescription(v) == v.Type = LLDPTLVPortDescription
IsGoodSysCap(v) == v.Type = LLDPTLVSysCapabilities /\ ~BelowFloor(v)
IsGoodOrg(v) == v.Type = LLDPTLVOrgSpecific /\ ~BelowFloor(v)
Max(S) == CHOOSE x \in S : \A y \in S : y <= x
LastWhere(seq, P(_)) == seq[Max(Indices(seq, P))]

(* C6: for an accepted frame the optional-TLV pass visits every leftover   *)
(* record, a record below its length floor adds an error and leaves the    *)
(* fields of the other records as decoded, the info layer is delivered     *)
(* once after the frame layer, and the call returns an error exactly when  *)
(* errors were collected, namely the first one.                            *)
C6_OptionalPassCompletes ==
  (Done /\ FrameDelivered) =>
     /\ layers = <<"LinkLayerDiscovery", "LinkLayerDiscoveryInfo">>
     /\ vi = Len(c.Values) + 1
     /\ Len(errors) >= Cardinality(Indices(c.Values, BelowFloor))
     /\ Indices(c.Values, IsSysName) # {} =>
          info.SysName = Bytes(LastWhere(c.Values, IsSysName).Value)
     /\ Indices(c.Values, IsPortDescription) # {} =>
          info.PortDescription = Bytes(LastWhere(c.Values, IsPortDescription).Value)
     /\ Indices(c.Values, IsGoodSysCap) # {} =>
          info.SysCapabilities.SystemCap =
             getCapabilities(U16At(LastWhere(c.Values, IsGoodSysCap).Value, 0))
     /\ Len(info.OrgTLVs) = Cardinality(Indices(c.Values, IsGoodOrg))
     /\ (ret.status = "error") <=> (errors # <<>>)
     /\ errors # <<>> => ret = ReturnErr(errors[1])
     /\ errors = <<>> => ret = ReturnNil

Received(r) == IF r.status = "error" THEN <<r.err>> ELSE <<>>
ExtReturned == ext.call # "none" /\ ext.ret.status # "panic"

IsUnknownKind(v) ==
  v.Type \notin {LLDPTLVPortDescription, LLDPTLVSysName, LLDPTLVSysDescription,
                 LLDPTLVSysCapabilities, LLDPTLVMgmtAddress, LLDPTLVOrgSpecific}

(* C8: every leftover record of a kind without a case of its own is        *)
(* appended, in wire order, to info.Unknown.                               *)
C8_UnknownCollected ==
  InfoDelivered => info.Unknown = SelectSeq(c.Values, IsUnknownKind)

(* Bytes [lo, hi) of a record value, by plain integer offsets *)
ValueBytes(V, lo, hi) == [j \in 1..(hi - lo) |-> mem[V.at + lo + j]]
InsideBuffer(V, hi) == V.at + hi <= Len(mem)

AtMgmtRecord ==
  /\ pc = "info"
  /\ vi <= Len(c.Values)
  /\ c.Values[vi].Type = LLDPTLVMgmtAddress
  /\ c.Values[vi].Value.len >= 9

MgmtOutcome ==
  LET V == c.Values[vi].Value
      n == At(V, 0)
  IN /\ pc' = "info"
     /\ vi' = vi + 1
     /\ IF V.len < n + 7
        THEN /\ Len(errors') = Len(errors) + 1
             /\ info' = info
        ELSE LET m == At(V, n + 6)
                 a == info'.MgmtAddress
             IN /\ a.Subtype = At(V, 1)
                /\ a.Address = ValueBytes(V, 2, n + 1)
                /\ a.InterfaceSubtype = At(V, n + 1)
                /\ a.InterfaceNumber = Uint32(ValueBytes(V, n + 2, n + 6))
                /\ IF V.len >= n + 6 + m
                   THEN /\ InsideBuffer(V, n + 9 + m)
                        /\ a.OID = ValueBytes(V, n + 9, n + 9 + m)
                        /\ errors' = errors
                   ELSE /\ a.OID = info.MgmtAddress.OID
                        /\ Len(errors') = Len(errors) + 1

(* C9: a ManagementAddress record of at least 9 bytes with address length  *)
(* n either has fewer than n+7 bytes, and then one error is recorded, no   *)
(* field is set and the pass goes on, or is decoded as kind = byte 1,      *)
(* address = [2, n+1), interface kind = byte n+1, interface number =       *)
(* [n+2, n+6) and, with m = byte n+6, OID = [n+9, n+9+m) when n+6+m bytes  *)
(* are present, else an error with the OID left as it was.                 *)
C9_MgmtAddressDecoded == [][AtMgmtRecord => MgmtOutcome]_vars

(* Length floors of the extension decoders, lldp.go:561-598, 614-649, 665-667 *)
OwnOUI(which) ==
  IF which = "Decode8021" THEN IEEEOUI8021
  ELSE IF which = "Decode8023" THEN IEEEOUI8023
  ELSE IEEEOUI8021Qbg

SubtypeFloor(which, st) ==
  IF which = "Decode8021"
  THEN (IF st \in {LLDP8021SubtypePortVLANID, LLDP8021SubtypeVLANName,
                   LLDP8021SubtypeManagementVID} THEN 2
        ELSE IF st = LLDP8021SubtypeProtocolVLANID THEN 3
        ELSE IF st = LLDP8021SubtypeProtocolIdentity THEN 1
        ELSE IF st = LLDP8021SubtypeVDIUsageDigest THEN 4
        ELSE IF st = LLDP8021SubtypeLinkAggregation THEN 5
        ELSE 0)
  ELSE IF which = "Decode8023"
  THEN (IF st \in {LLDP8023SubtypeMACPHY, LLDP8023SubtypeLinkAggregation} THEN 5
        ELSE IF st = LLDP8023SubtypeMDIPower THEN 3
        ELSE IF st = LLDP8023SubtypeMTU THEN 2
        ELSE 0)
  ELSE (IF st = LLDP8021QbgEVB THEN 9 ELSE 0)

OwnEntries == {i \in 1..Len(info.OrgTLVs) : info.OrgTLVs[i].OUI = OwnOUI(ext.call)}
TooShort(i) ==
  info.OrgTLVs[i].Info.len < SubtypeFloor(ext.call, info.OrgTLVs[i].SubType)
GoodEntries(st) ==
  {i \in OwnEntries : info.OrgTLVs[i].SubType = st /\ ~TooShort(i)}
HasOwnOUI(o) == o.OUI = OwnOUI(ext.call)

Populated ==
  IF ext.call = "Decode8021"
  THEN /\ Len(ext.info.PPVIDs) = Cardinality(GoodEntries(LLDP8021SubtypeProtocolVLANID))
       /\ Len(ext.info.VLANNames) = Cardinality(GoodEntries(LLDP8021SubtypeVLANName))
       /\ GoodEntries(LLDP8021SubtypePortVLANID) # {} =>
            ext.info.PVID =
              U16At(info.OrgTLVs[Max(GoodEntries(LLDP8021SubtypePortVLANID))].Info, 0)
       /\ GoodEntries(LLDP8021SubtypePortVLANID) = {} => ext.info.PVID = 0
       /\ GoodEntries(LLDP8021SubtypeLinkAggregation) # {} =>
            ext.info.LinkAggregation.PortID =
              U32At(info.OrgTLVs[Max(GoodEntries(LLDP8021SubtypeLinkAggregation))].Info, 1)
  ELSE IF ext.call = "Decode8023"
  THEN /\ GoodEntries(LLDP8023SubtypeMTU) # {} =>
            ext.info.MTU = U16At(info.OrgTLVs[Max(GoodEntries(LLDP8023SubtypeMTU))].Info, 0)
       /\ GoodEntries(LLDP8023SubtypeMTU) = {} => ext.info.MTU = 0
       /\ GoodEntries(LLDP8023SubtypeMACPHY) # {} =>
            ext.info.MACPHYConfigStatus.MAUType =
              U16At(info.OrgTLVs[Max(GoodEntries(LLDP8023SubtypeMACPHY))].Info, 3)
       /\ GoodEntries(LLDP8023SubtypeMDIPower) # {} =>
            ext.info.PowerViaMDI.PSEClass =
              At(info.OrgTLVs[Max(GoodEntries(LLDP8023SubtypeMDIPower))].Info, 2)
  ELSE /\ GoodEntries(LLDP8021QbgEVB) # {} =>
            ext.info.EVBSettings.RTEExponent =
              At(info.OrgTLVs[Max(GoodEntries(LLDP8021QbgEVB))].Info, 8)
       /\ GoodEntries(LLDP8021QbgEVB) = {} => ext.info = ZeroInfo8021Qbg

(* C10: an extension decoder uses only the entries with its own OUI; an    *)
(* own entry below its subtype's length floor adds one error and leaves    *)
(* the subtype's fields at their default, and every other own entry,       *)
(* before or after it, still populates its fields.                         *)
C10_ExtensionEntriesIndependent ==
  ext.call # "none" =>
     /\ ext.ret.status # "panic"
     /\ Len(ext.errors) = Cardinality({i \in OwnEntries : TooShort(i)})
     /\ Populated
     /\ ext.info =
          RangeOrgTLVs(ext.call, SelectSeq(info.OrgTLVs, HasOwnOUI), 1,
             [info |-> (IF ext.call = "Decode8021" THEN ZeroInfo8021
                        ELSE IF ext.call = "Decode8023" THEN ZeroInfo8023
                        ELSE ZeroInfo8021Qbg),
              errors |-> <<>>, panic |-> FALSE]).info

----------------------------------------------------------------------------
(* Power via MDI *)

MDIEntries == GoodEntries(LLDP8023SubtypeMDIPower)
LastMDI == info.OrgTLVs[Max(MDIEntries)].Info
ShortMDIOnly == \A i \in MDIEntries : info.OrgTLVs[i].Info.len < 8

(* C11: a Power-via-MDI payload of 3 to 7 bytes has only its flag byte,    *)
(* power-pair byte and class byte decoded, the other power fields staying  *)
(* at their defaults; a payload of 8 bytes also has power type, source,    *)
(* priority, requested and allocated power decoded from those 8 bytes, and *)
(* Decode8023 returns the result without an error.                         *)
C11_PowerViaMDI ==
  (ext.call = "Decode8023" /\ MDIEntries # {}) =>
     /\ ext.ret.status # "panic"
     /\ LET p == ext.info.PowerViaMDI
        IN /\ p.PortClassPSE = BitSet(At(LastMDI, 0), 0)
           /\ p.PSEPowerPair = At(LastMDI, 1)
           /\ p.PSEClass = At(LastMDI, 2)
           /\ ShortMDIOnly =>
                /\ p.PowerType = 0 /\ p.PowerSource = 0 /\ p.PowerPriority = 0
                /\ p.RequestedPower = 0 /\ p.AllocatedPower = 0
           /\ LastMDI.len >= 8 =>
                /\ p.PowerType = At(LastMDI, 3) \div 64
                /\ p.PowerPriority = At(LastMDI, 4) % 16
                /\ p.RequestedPower = U16At(LastMDI, 5)
                /\ p.AllocatedPower \in {At(LastMDI, 7),
                                         At(LastMDI, 6) * 256 + At(LastMDI, 7)}

----------------------------------------------------------------------------
(* 802.1 payload reads *)

IsVLANName(o) ==
  o.OUI = IEEEOUI8021 /\ o.SubType = LLDP8021SubtypeVLANName /\ o.Info.len >= 2
IsProtocolIdentity(o) ==
  o.OUI = IEEEOUI8021 /\ o.SubType = LLDP8021SubtypeProtocolIdentity /\ o.Info.len >= 1
BlobInside(o) == 1 + At(o.Info, 0) <= o.Info.len
HasBlob(o) == IsProtocolIdentity(o) /\ At(o.Info, 0) > 0 /\ BlobInside(o)
BlobTooLong(o) == IsProtocolIdentity(o) /\ ~BlobInside(o)

ExpectedVLANNames ==
  LET es == SelectSeq(info.OrgTLVs, IsVLANName)
  IN [i \in 1..Len(es) |->
        [ID |-> U16At(es[i].Info, 0),
         Name |-> ValueBytes(es[i].Info, 3, es[i].Info.len)]]

ExpectedProtocolIdentities ==
  LET es == SelectSeq(info.OrgTLVs, HasBlob)
  IN [i \in 1..Len(es) |-> ValueBytes(es[i].Info, 1, 1 + At(es[i].Info, 0))]

(* C12: Decode8021 reads only bytes inside a payload that passes its       *)
(* length floor: a VLAN Name payload of 2 bytes or more gives one entry    *)
(* with the ID of its first two bytes and the name from offset 3 to its    *)
(* end (empty when there is none); a Protocol Identity payload gives a     *)
(* blob wholly inside the payload, or an error when it holds fewer than    *)
(* 1 + l bytes; neither crashes.                                           *)
C12_PayloadReadsInside ==
  ext.call = "Decode8021" =>
     /\ ext.ret.status # "panic"
     /\ ext.info.VLANNames = ExpectedVLANNames
     /\ ext.info.ProtocolIdentities = ExpectedProtocolIdentities
     /\ Len(ext.errors) =
          Cardinality({i \in OwnEntries : TooShort(i)}) +
          Cardinality(Indices(info.OrgTLVs, BlobTooLong))

----------------------------------------------------------------------------
(* Scan of the record stream *)

ScanStep == pc = "scan" /\ vDataLen > 0
HeaderInside == vDataLen >= 2
WholeRecordInside ==
  HeaderInside /\ 2 + HeaderLength(At(vData, 0), At(vData, 1)) <= vDataLen

(* C13: on every input buffer, each iteration of the scan reads only       *)
(* indices below the buffer's length and consumes at least 2 bytes, and    *)
(* the scan stops only by going on to the frame or by returning a          *)
(* structural error; no iteration is an out-of-range read.                 *)
C13_ScanInsideBuffer ==
  [][ScanStep =>
       /\ ret'.status # "panic"
       /\ (pc' = "scan" => off' >= off + 2)
       /\ (pc' = "done" => ret'.status = "error")]_vars

----------------------------------------------------------------------------
(* Bounds of the ManagementAddress reads *)

(* C14: for a ManagementAddress value of at least 9 bytes with address     *)
(* length n and OID length m, the lengths tested and the bounds of the     *)
(* address, interface-number and OID reads are the integer sums n+7,       *)
(* n+1, n+6, n+6+m and n+9+m: a value shorter than n+7 or n+6+m is         *)
(* reported, every slice has start <= end, and every byte read lies below  *)
(* the value's length, so no byte of a following record is read.           *)
C14_MgmtBoundsTrueSums ==
  [][AtMgmtRecord =>
       LET V == c.Values[vi].Value
           n == At(V, 0)
       IN /\ ret'.status # "panic"
          /\ V.len < n + 7 =>
               (Len(errors') = Len(errors) + 1 /\ info' = info)
          /\ V.len >= n + 7 =>
               LET m == At(V, n + 6)
               IN /\ 2 <= n + 1
                  /\ info'.MgmtAddress.Address = ValueBytes(V, 2, n + 1)
                  /\ V.len < n + 6 + m => Len(errors') = Len(errors) + 1
                  /\ errors' = errors =>
                       /\ n + 9 + m <= V.len
                       /\ info'.MgmtAddress.OID =
                            ValueBytes(V, n + 9, n + 9 + m)]_vars

====
